---- MODULE Spec2Model ----
(***************************************************************************)
(* The session state machine of the Biomechanics Tutor (app.py): the       *)
(* reactive values of one session, the process-wide reactive values, and   *)
(* one action per reactive effect (landing-page section button, section    *)
(* menu, question tabs, option buttons, answer submission), each followed  *)
(* by the re-rendering of main_content and question_card that the same     *)
(* reactive flush performs.  The browser is modelled by what it currently  *)
(* displays (shown), which lags the server until a rendering is delivered. *)
(*                                                                         *)
(* An optional value (None, NaN, pd.NA) is a sequence of length 0 or 1.    *)
(***************************************************************************)
EXTENDS Integers, Sequences, FiniteSets, TLC

VARIABLES
    current_order,        \* reactive.Value([]): shuffled options of the step
    current_section,      \* reactive.Value("")
    current_question,     \* reactive.Value("")
    current_subq,         \* reactive.Value(0)
    show_solution,        \* reactive.Value(False)
    feedback_text,        \* reactive.Value("")
    current_answer,       \* reactive.Value(None)
    current_units,        \* reactive.Value("Select units")
    last_notification_id, \* module-level reactive.Value(None)
    initial_load,         \* module-level reactive.Value(True)
    is_section_selected,  \* module-level reactive.Value(False)
    visible,              \* notifications the browser of this session displays
    shown,                \* what the browser of this session displays
    late,                 \* events handled since the last delivered rendering
    alive,                \* FALSE once an effect raised and the session closed
    lastEvent             \* the event handled by the last step

vars == << current_order, current_section, current_question, current_subq,
           show_solution, feedback_text, current_answer, current_units,
           last_notification_id, initial_load, is_section_selected,
           visible, shown, late, alive, lastEvent >>

session_vars == << current_order, current_section, current_question,
                   current_subq, show_solution, feedback_text,
                   current_answer, current_units >>

-----------------------------------------------------------------------------
(* Bounds *)

\* numeric_answer inputs are 0 .. MaxNumeric
MaxNumeric == 4

\* events the server may handle before the browser receives the rendering
MaxInFlight == 3

\* the other session shows notifications while the browser of this session
\* displays fewer than MaxVisible notifications
MaxVisible == 2

-----------------------------------------------------------------------------
(* The dataset (Master_questions.csv, read once at start) *)

None == << >>
Some(x) == << x >>

NoOptions == << None, None, None, None >>
Feedbacks == << "feedback_1", "feedback_2", "feedback_3", "feedback_4" >>

\* the sub_question names of Q4, a question of twelve steps: every step but
\* the last offers one option, the correct one
long_steps == << "g0", "g1", "g2", "g3", "g4", "g5", "g6", "g7", "g8", "g9",
                 "g10", "g11" >>

long_question ==
    [ k \in 1..Len(long_steps) |->
        [ section |-> "S2", question_number |-> "2", main_question |-> "Q4",
          sub_question |-> long_steps[k],
          option |-> IF k < Len(long_steps)
                     THEN << Some("g"), None, None, None >>
                     ELSE NoOptions,
          feedback |-> Feedbacks,
          correct_option |-> IF k < Len(long_steps) THEN Some(1) ELSE None,
          min_value |-> Some(2), max_value |-> Some(2), units |-> "s" ] ]

df == <<
  [ section |-> "S1", question_number |-> "1", main_question |-> "Q1",
    sub_question |-> "a",
    option |-> << Some("x"), Some("y"), Some("z"), None >>,
    feedback |-> Feedbacks, correct_option |-> Some(3),
    min_value |-> Some(1), max_value |-> Some(3), units |-> "m" ],
  [ section |-> "S1", question_number |-> "1", main_question |-> "Q1",
    sub_question |-> "b",
    option |-> << Some("p"), Some("None"), Some("q"), Some(" ") >>,
    feedback |-> Feedbacks, correct_option |-> Some(1),
    min_value |-> None, max_value |-> None, units |-> "m" ],
  [ section |-> "S1", question_number |-> "1", main_question |-> "Q1",
    sub_question |-> "c",
    option |-> NoOptions,
    feedback |-> Feedbacks, correct_option |-> None,
    min_value |-> Some(1), max_value |-> Some(3), units |-> "m" ],
  [ section |-> "S1", question_number |-> "2", main_question |-> "Q2",
    sub_question |-> "d",
    option |-> << Some("r"), Some("t"), None, None >>,
    feedback |-> Feedbacks, correct_option |-> Some(1),
    min_value |-> None, max_value |-> Some(2), units |-> "s" ],
  [ section |-> "S2", question_number |-> "1", main_question |-> "Q3",
    sub_question |-> "e",
    option |-> << Some("u"), Some("v"), None, None >>,
    feedback |-> Feedbacks, correct_option |-> Some(2),
    min_value |-> Some(4), max_value |-> Some(4), units |-> "m/s" ],
  [ section |-> "S2", question_number |-> "1", main_question |-> "Q3",
    sub_question |-> "f",
    option |-> NoOptions,
    feedback |-> Feedbacks, correct_option |-> None,
    min_value |-> Some(4), max_value |-> Some(4), units |-> "m/s" ],
  [ section |-> "S2", question_number |-> "3", main_question |-> "Q5",
    sub_question |-> "h",
    option |-> NoOptions,
    feedback |-> Feedbacks, correct_option |-> None,
    min_value |-> Some(3), max_value |-> Some(1), units |-> "m" ],
  [ section |-> "S2", question_number |-> "4", main_question |-> "Q6",
    sub_question |-> "i",
    option |-> NoOptions,
    feedback |-> Feedbacks, correct_option |-> None,
    min_value |-> Some(1), max_value |-> None, units |-> "m" ]
>> \o long_question

\* the k-th smallest element of the set of integers I
nth(I, k) == CHOOSE i \in I : Cardinality({ j \in I : j < i }) = k - 1

\* DataFrame.drop_duplicates(col): the rows that are the first with their
\* value of column col, in row order
drop_duplicates(rows, col) ==
    LET I == { i \in 1..Len(rows) :
                 \A j \in 1..(i - 1) : rows[j][col] # rows[i][col] }
    IN  [ k \in 1..Cardinality(I) |-> rows[nth(I, k)] ]

\* Series.unique(): the values of column col in first-seen order
unique(rows, col) ==
    LET kept == drop_duplicates(rows, col)
    IN  [ i \in 1..Len(kept) |-> kept[i][col] ]

Range(s) == { s[i] : i \in 1..Len(s) }

sections == unique(df, "section")

units_options == { "Select units", "m/s", "m", "s" }

NumericInputs == 0..MaxNumeric

\* the values current_section and current_question can take
SectionValues  == { "" } \cup { df[i].section : i \in 1..Len(df) }
QuestionValues == { "" } \cup { df[i].main_question : i \in 1..Len(df) }

\* df[(df["section"] == section) & (df["main_question"] == question)],
\* computed once for every pair
q_data_of ==
    [ section \in SectionValues, question \in QuestionValues |->
        SelectSeq(df, LAMBDA r : r.section = section /\ r.main_question = question) ]

q_data(section, question) == q_data_of[section, question]

\* list(q_data["sub_question"].unique()) of every pair
sub_questions_of ==
    [ section \in SectionValues, question \in QuestionValues |->
        unique(q_data_of[section, question], "sub_question") ]

sub_questions(section, question) == sub_questions_of[section, question]

\* q_data[q_data["sub_question"] == sub_questions[i]].iloc[0] of every step
\* (i counts from 0)
sub_q_data_of ==
    [ section \in SectionValues, question \in QuestionValues |->
        LET qd  == q_data_of[section, question]
            sqs == sub_questions_of[section, question]
        IN  [ k \in 1..Len(sqs) |->
                SelectSeq(qd, LAMBDA r : r.sub_question = sqs[k])[1] ] ]

sub_q_data(section, question, i) == sub_q_data_of[section, question][i + 1]

\* df[df["section"] == selected].drop_duplicates("question_number")
unique_questions_of ==
    [ selected \in SectionValues |->
        drop_duplicates(SelectSeq(df, LAMBDA r : r.section = selected),
                        "question_number") ]

unique_questions(selected) == unique_questions_of[selected]

-----------------------------------------------------------------------------
(* main_content: the option records of a step and their shuffle *)

\* str(option_text).strip().lower(), on the option texts of the dataset
strip_lower(t) ==
    CASE t = " "    -> ""
      [] t = "None" -> "none"
      [] t = "NaN"  -> "nan"
      [] OTHER      -> t

\* is_blank that tests pd.isna(option_text) only
is_blank_missing_only(option_text) == option_text = None

\* pd.isna(option_text) or str(option_text).strip().lower() in ("", "nan", "none")
is_blank(option_text) ==
    \/ option_text = None
    \/ strip_lower(option_text[1]) \in { "", "nan", "none" }

\* x == correct_option, which is pd.NA when correct_option is missing
eq_na(x, correct_option) ==
    IF correct_option = None THEN None ELSE Some(x = correct_option[1])

\* the loop "for j in range(4)" of main_content over the first row of a
\* step: one record per option that is not blank, in the order of j
build_options(row) ==
    LET J == { j \in 1..4 : ~is_blank(row.option[j]) }
    IN  [ k \in 1..Cardinality(J) |->
            LET j == nth(J, k)
            IN  [ option_text    |-> row.option[j][1],
                  feedback       |-> row.feedback[j],
                  index          |-> j - 1,
                  original_index |-> j,
                  is_correct     |-> eq_na(j, row.correct_option) ] ]

\* random.shuffle(options): every rearrangement of options
shuffle(options) ==
    LET n == Len(options)
        P == { p \in [1..n -> 1..n] : \A i, j \in 1..n : p[i] = p[j] => i = j }
    IN  { [ i \in 1..n |-> options[p[i]] ] : p \in P }

\* the orders main_content can store for every step (i counts from 0)
orders_of ==
    [ section \in SectionValues, question \in QuestionValues |->
        [ k \in 1..Len(sub_questions_of[section, question]) |->
            shuffle(build_options(sub_q_data_of[section, question][k])) ] ]

\* the number of option buttons main_content renders for every step
buttons_of ==
    [ section \in SectionValues, question \in QuestionValues |->
        [ k \in 1..Len(sub_questions_of[section, question]) |->
            Len(build_options(sub_q_data_of[section, question][k])) ] ]

\* whether q_data of (section, question) has a row
resolved(section, question) ==
    section # "" /\ question # "" /\ q_data(section, question) # << >>

\* main_content that re-executes in every flush
main_content_always(invalidated) ==
    IF current_section' = "" \/ current_question' = ""
    THEN current_order' = current_order
    ELSE IF current_subq' >= Len(sub_questions(current_section', current_question'))
         THEN current_order' = current_order
         ELSE current_order' \in
                orders_of[current_section', current_question'][current_subq' + 1]

\* main_content re-executes in the flush when a reactive value it read was
\* set to another value; it stores a fresh shuffle of the options of step
\* current_subq, or returns before that (the stored order then stays)
main_content(invalidated) ==
    IF ~invalidated \/ current_section' = "" \/ current_question' = ""
    THEN current_order' = current_order
    ELSE IF current_subq' >= Len(sub_questions(current_section', current_question'))
         THEN current_order' = current_order
         ELSE current_order' \in
                orders_of[current_section', current_question'][current_subq' + 1]

\* the reactive values main_content read when it last ran
reads_question == current_section # ""
reads_subq     == current_section # "" /\ current_question # ""

\* question_card clears initial_load the first time it renders a question
question_card ==
    initial_load' = (initial_load /\ ~resolved(current_section', current_question'))

-----------------------------------------------------------------------------
(* Notifications *)

section_selected_msg == "Section selected. Let's begin!"
next_step_msg        == "Correct! Moving to next step."
final_answer_msg     == "Correct! Please enter your final answer."
solution_msg         == "Correct! You can now view the complete solution."
correct_text         == "Correct! View the complete solution below."
select_units_msg     == "Your numeric answer is correct! Please select the appropriate units."
wrong_units_msg      == "Your numeric answer is correct, but the units are incorrect. Try again!"
out_of_range_msg     == "Try again. Your answer is not within the acceptable range."

\* a notification's id is modelled by its message
show_new_notification(msg) ==
    /\ visible' = (IF last_notification_id # None
                   THEN visible \ { last_notification_id[1] }
                   ELSE visible) \cup { msg }
    /\ last_notification_id' = Some(msg)

no_notification == UNCHANGED << last_notification_id, visible >>

-----------------------------------------------------------------------------
(* The browser *)

\* what the outputs main_ui, question_nav, question_card and main_content
\* render from the current state
View ==
    LET sqs  == sub_questions(current_section, current_question)
        card == resolved(current_section, current_question)
        btns == card /\ current_subq < Len(sqs)
    IN  [ landing |-> ~is_section_selected,
          section |-> IF is_section_selected THEN current_section ELSE "",
          card    |-> is_section_selected /\ card,
          step    |-> IF btns THEN current_subq ELSE 0,
          n       |-> IF btns
                      THEN buttons_of[current_section, current_question][current_subq + 1]
                      ELSE 0 ]

\* the browser receives the rendering of the current state
Deliver ==
    /\ alive
    /\ late > 0 \/ shown # View
    /\ shown' = View
    /\ late' = 0
    /\ lastEvent' = [ op |-> "deliver" ]
    /\ UNCHANGED << session_vars, last_notification_id, initial_load,
                    is_section_selected, visible, alive >>

\* the server handles one event of the browser
handled(event) ==
    /\ alive
    /\ late < MaxInFlight
    /\ late' = late + 1
    /\ lastEvent' = event
    /\ UNCHANGED shown

-----------------------------------------------------------------------------
(* The reactive effects of server() *)

\* reset_state that leaves current_subq as it is
reset_state_keeps_subq ==
    /\ UNCHANGED current_subq
    /\ show_solution' = FALSE
    /\ feedback_text' = ""
    /\ current_answer' = None
    /\ current_units' = "Select units"

\* reset_state that leaves feedback_text as it is
reset_state_keeps_feedback ==
    /\ current_subq' = 0
    /\ show_solution' = FALSE
    /\ UNCHANGED feedback_text
    /\ current_answer' = None
    /\ current_units' = "Select units"

\* reset_state that moves current_subq between 0 and 1
reset_state_flips_subq ==
    /\ current_subq' = (IF current_subq = 0 THEN 1 ELSE 0)
    /\ show_solution' = FALSE
    /\ feedback_text' = ""
    /\ current_answer' = None
    /\ current_units' = "Select units"

reset_state ==
    /\ current_subq' = 0
    /\ show_solution' = FALSE
    /\ feedback_text' = ""
    /\ current_answer' = None
    /\ current_units' = "Select units"

\* the landing-page buttons are section_button_<section>, one per section
section_buttons == Range(sections)

\* the effect of create_section_observer(button_id, section)
section_observer(section) ==
    /\ current_section' = section
    /\ is_section_selected' = TRUE
    /\ reset_state
    /\ show_new_notification(section_selected_msg)
    /\ UNCHANGED current_question
    /\ main_content(\/ section # current_section
                    \/ reads_subq /\ current_subq # 0)
    /\ question_card

\* unique_questions.iloc[0]["main_question"], when unique_questions is not empty
first_question(selected) ==
    LET uq == unique_questions(selected)
    IN  IF uq = << >> THEN "" ELSE uq[1].main_question

\* the effect on input.section_nav
section_nav(selected) ==
    /\ IF selected \in Range(sections)
       THEN /\ current_section' = selected
            /\ current_question' = first_question(selected)
            /\ reset_state
            /\ main_content(\/ selected # current_section
                            \/ reads_question /\ current_question # ""
                            \/ reads_question /\ first_question(selected) # ""
                            \/ reads_subq /\ current_subq # 0)
       ELSE UNCHANGED session_vars
    /\ initial_load' = FALSE
    /\ UNCHANGED is_section_selected
    /\ no_notification

\* the effect on input.question
question_effect(id) ==
    /\ IF id # ""
       THEN /\ current_question' = id
            /\ reset_state
            /\ UNCHANGED current_section
            /\ main_content(\/ reads_question /\ id # current_question
                            \/ reads_subq /\ current_subq # 0)
       ELSE UNCHANGED session_vars
    /\ question_card
    /\ UNCHANGED is_section_selected
    /\ no_notification

\* is_correct = clicked_option["original_index"] == sub_q_data.iloc[0]["correct_option"]
\* for the option clicked at position opt of the stored order
judge_by_position(clicked_option, opt, row) ==
    eq_na(opt + 1, row.correct_option)

judge(clicked_option, opt, row) ==
    eq_na(clicked_option.original_index, row.correct_option)

\* current_subq() < len(sub_questions) - 1, one step too early
before_last_step_early(n_sub_questions) == current_subq < n_sub_questions - 2

\* current_subq() < len(sub_questions), one step too late
before_last_step_late(n_sub_questions) == current_subq < n_sub_questions

\* current_subq() < len(sub_questions) - 1
before_last_step(n_sub_questions) == current_subq < n_sub_questions - 1

\* create_option_observer is called for sub_q in range(10), opt in range(4)
ObservedSteps == 10
ObservedOptions == 4

\* an index out of range answered by the feedback of the first option
ignored_click_notifies ==
    /\ UNCHANGED << session_vars, alive >>
    /\ show_new_notification(Feedbacks[1])

\* "return  # Prevent index out of range"
ignored_click ==
    UNCHANGED << session_vars, last_notification_id, visible, alive >>

\* the effect of create_option_observer(sub_q, opt); an effect that raises
\* closes the session
option_observer(sub_q, opt) ==
    LET sqs == sub_questions(current_section, current_question)
    IN  IF sub_q >= Len(sqs) \/ opt >= Len(current_order)
        THEN ignored_click
        ELSE
          LET row              == sub_q_data(current_section, current_question, sub_q)
              clicked_option   == current_order[opt + 1]
              feedback_message == row.feedback[clicked_option.original_index]
              is_correct       == judge(clicked_option, opt, row)
          IN  IF is_correct = None
              THEN \* bool(pd.NA) raises TypeError
                   /\ alive' = FALSE
                   /\ UNCHANGED << session_vars, last_notification_id, visible >>
              ELSE /\ UNCHANGED alive
                   /\ UNCHANGED << current_section, current_question, show_solution,
                                   feedback_text, current_answer, current_units >>
                   /\ IF is_correct[1] /\ before_last_step(Len(sqs))
                      THEN /\ current_subq' = current_subq + 1
                           /\ show_new_notification(next_step_msg)
                           /\ main_content(TRUE)
                      ELSE /\ UNCHANGED << current_subq, current_order >>
                           /\ IF is_correct[1]
                              THEN show_new_notification(final_answer_msg)
                              ELSE show_new_notification(feedback_message)

\* numeric_correct with both bounds exclusive
numeric_correct_strict(value, min_value, max_value) ==
    /\ min_value # None
    /\ max_value # None
    /\ min_value[1] < value
    /\ value < max_value[1]

\* numeric_correct without the upper bound
numeric_correct_lower_only(value, min_value, max_value) ==
    /\ min_value # None
    /\ max_value # None
    /\ min_value[1] <= value

\* numeric_correct that takes a missing bound for no bound
numeric_correct_open(value, min_value, max_value) ==
    /\ min_value = None \/ min_value[1] <= value
    /\ max_value = None \/ value <= max_value[1]

\* correct_range[0] <= input.numeric_answer() <= correct_range[1]
numeric_correct(value, min_value, max_value) ==
    /\ min_value # None
    /\ max_value # None
    /\ min_value[1] <= value
    /\ value <= max_value[1]

\* units_correct that accepts any units
units_correct_any(selected_units, correct_units) == TRUE

\* units_correct that also accepts the "Select units" placeholder
units_correct_unselected(selected_units, correct_units) ==
    selected_units = correct_units \/ selected_units = "Select units"

\* selected_units == correct_units
units_correct(selected_units, correct_units) == selected_units = correct_units

\* the branch of check_numeric for an absent value, calling reset_state
empty_submission_resets ==
    /\ reset_state
    /\ UNCHANGED << current_order, current_section, current_question >>
    /\ no_notification

\* if input.numeric_answer() is None: feedback_text.set(""); return
empty_submission ==
    /\ feedback_text' = ""
    /\ UNCHANGED << current_order, current_section, current_question,
                    current_subq, show_solution, current_answer,
                    current_units >>
    /\ no_notification

\* the message for a value in range with other units, the two texts swapped
units_message_swapped(selected_units) ==
    IF selected_units = "Select units" THEN wrong_units_msg
    ELSE select_units_msg

\* the message for a value in range with units other than the question's
units_message(selected_units) ==
    IF selected_units = "Select units" THEN select_units_msg
    ELSE wrong_units_msg

\* a refused answer that leaves show_solution as it is
unsolve_skipped == UNCHANGED show_solution

\* show_solution.set(False) of the two branches that refuse the answer
unsolve == show_solution' = FALSE

\* the row of q_data at the position of the current step
row_of_current_step(qd) ==
    qd[IF current_subq < Len(qd) THEN current_subq + 1 ELSE 1]

\* q_data.iloc[0], the row check_numeric takes min_value, max_value and
\* units from
representative_row(qd) == qd[1]

\* the effect on input.submit_answer
check_numeric(numeric_answer, units_answer) ==
    IF numeric_answer = None
    THEN empty_submission
    ELSE
      /\ current_answer' = numeric_answer
      /\ current_units' = units_answer
      /\ UNCHANGED << current_section, current_question, current_subq >>
      /\ main_content(FALSE)
      /\ LET qd == q_data(current_section, current_question)
         IN  IF qd = << >>
             THEN /\ UNCHANGED << show_solution, feedback_text >>
                  /\ no_notification
             ELSE
               LET num_ok   == numeric_correct(numeric_answer[1],
                                               representative_row(qd).min_value, representative_row(qd).max_value)
                   units_ok == units_correct(units_answer, representative_row(qd).units)
               IN  IF num_ok /\ units_ok
                   THEN /\ show_solution' = TRUE
                        /\ feedback_text' = correct_text
                        /\ show_new_notification(solution_msg)
                   ELSE IF num_ok
                   THEN /\ unsolve
                        /\ LET msg == units_message(units_answer)
                           IN  /\ feedback_text' = msg
                               /\ show_new_notification(msg)
                   ELSE /\ unsolve
                        /\ feedback_text' = out_of_range_msg
                        /\ show_new_notification(out_of_range_msg)

-----------------------------------------------------------------------------
(* The events the browser can send from what it displays *)

LandingButton ==
    \E section \in section_buttons :
        /\ shown.landing
        /\ handled([ op |-> "section_button", section |-> section ])
        /\ section_observer(section)
        /\ UNCHANGED alive

SectionMenu ==
    \E selected \in Range(sections) :
        /\ ~shown.landing
        /\ handled([ op |-> "section_nav", section |-> selected ])
        /\ section_nav(selected)
        /\ UNCHANGED alive

\* the tabs of question_nav: one per distinct question_number of the section
question_tabs(section) ==
    { r.main_question : r \in Range(unique_questions(section)) }

QuestionTab ==
    \E id \in question_tabs(shown.section) :
        /\ ~shown.landing
        /\ handled([ op |-> "question", id |-> id ])
        /\ question_effect(id)
        /\ UNCHANGED alive

OptionButton ==
    \E opt \in 0..(ObservedOptions - 1) :
        /\ shown.step < ObservedSteps
        /\ opt < shown.n
        /\ handled([ op |-> "option", sub_q |-> shown.step, opt |-> opt ])
        /\ option_observer(shown.step, opt)
        /\ UNCHANGED << initial_load, is_section_selected >>

SubmitAnswer ==
    \E numeric_answer \in { None } \cup { Some(v) : v \in NumericInputs },
       units_answer \in units_options :
        /\ shown.card
        /\ handled([ op |-> "submit", numeric |-> numeric_answer,
                     units |-> units_answer ])
        /\ check_numeric(numeric_answer, units_answer)
        /\ UNCHANGED << initial_load, is_section_selected, alive >>

-----------------------------------------------------------------------------

Init ==
    /\ current_order = << >>
    /\ current_section = ""
    /\ current_question = ""
    /\ current_subq = 0
    /\ show_solution = FALSE
    /\ feedback_text = ""
    /\ current_answer = None
    /\ current_units = "Select units"
    /\ last_notification_id = None
    /\ initial_load = TRUE
    /\ is_section_selected = FALSE
    /\ visible = { }
    /\ shown = [ landing |-> TRUE, section |-> "", card |-> FALSE,
                 step |-> 0, n |-> 0 ]
    /\ late = 0
    /\ alive = TRUE
    /\ lastEvent = [ op |-> "init" ]

Next ==
    \/ LandingButton
    \/ SectionMenu
    \/ QuestionTab
    \/ OptionButton
    \/ SubmitAnswer
    \/ Deliver

Spec == Init /\ [][Next]_vars

-----------------------------------------------------------------------------
(* A learner who keeps answering: every rendering reaches the browser, and *)
(* the button of the correct option of the current step, whenever it is    *)
(* displayed and its click is handled, is clicked again and again.         *)

\* the click on the button that displays the correct option of the step
\* that is current
CorrectClick ==
    \E opt \in 0..(ObservedOptions - 1) :
        /\ shown.step < ObservedSteps
        /\ opt < shown.n
        /\ current_section # "" /\ current_question # ""
        /\ q_data(current_section, current_question) # << >>
        /\ shown.step = current_subq
        /\ opt < Len(current_order)
        /\ sub_q_data(current_section, current_question,
                      current_subq).correct_option
             = Some(current_order[opt + 1].original_index)
        /\ handled([ op |-> "option", sub_q |-> shown.step, opt |-> opt ])
        /\ option_observer(shown.step, opt)
        /\ UNCHANGED << initial_load, is_section_selected >>

SpecLearner ==
    Init /\ [][Next]_vars /\ WF_vars(Deliver) /\ SF_vars(CorrectClick)

-----------------------------------------------------------------------------
(* A second session of the same process.  server() runs once per session   *)
(* and gives each its own session reactive values; last_notification_id,   *)
(* initial_load and is_section_selected are created once, at module level, *)
(* and every session reads and writes the same three objects.  The other   *)
(* session is modelled by what its effects write to them.                  *)

\* the id ui.notification_show returned in the other session: no
\* notification of this session's browser has it
other_session_id == "notification of another session"

\* show_new_notification run by an effect of the other session: the
\* removal and the display go to the other session's browser
other_show_new_notification ==
    /\ last_notification_id' = Some(other_session_id)
    /\ UNCHANGED visible

\* a step taken by the other session
other_handled ==
    /\ lastEvent' = [ op |-> "other_session" ]
    /\ UNCHANGED << session_vars, shown, late, alive >>

\* the other session, displaying the landing page, clicks a section button
OtherLandingButton ==
    /\ ~is_section_selected
    /\ other_handled
    /\ is_section_selected' = TRUE
    /\ other_show_new_notification
    /\ UNCHANGED initial_load

\* the other session's effect on input.section_nav
OtherSectionMenu ==
    /\ is_section_selected
    /\ other_handled
    /\ initial_load' = FALSE
    /\ UNCHANGED is_section_selected
    /\ no_notification

\* the other session, displaying a question, clicks an option or submits
\* an answer; its notifications are followed until this session has a
\* current question
OtherNotification ==
    /\ is_section_selected
    /\ Cardinality(visible) < MaxVisible
    /\ current_question = ""
    /\ other_handled
    /\ other_show_new_notification
    /\ UNCHANGED << initial_load, is_section_selected >>

NextSessions ==
    \/ Next
    \/ OtherLandingButton
    \/ OtherSectionMenu
    \/ OtherNotification

SpecSessions == Init /\ [][NextSessions]_vars

-----------------------------------------------------------------------------
(* Properties *)

\* the representative row of the current question: its first dataset row
main_row == q_data(current_section, current_question)[1]

current_resolved == resolved(current_section, current_question)

\* min_value <= v <= max_value, both ends included; a missing bound fails
InRange(v, row) ==
    /\ row.min_value # None
    /\ row.max_value # None
    /\ row.min_value[1] <= v
    /\ v <= row.max_value[1]

\* the submission (numeric, units) is fully correct for the current question
FullyCorrect(numeric, units) ==
    /\ numeric # None
    /\ current_resolved
    /\ InRange(numeric[1], main_row)
    /\ units = main_row.units

\* C1: after a submitAnswer with a numeric value on a resolved question,
\* show_solution is true exactly when the value lies in
\* [min_value, max_value], both bounds included, and the units equal the
\* question's units; otherwise it is false.
C1_SubmitOutcome ==
    (lastEvent.op = "submit" /\ lastEvent.numeric # None /\ current_resolved)
        => (show_solution <=> FullyCorrect(lastEvent.numeric, lastEvent.units))

\* a submission at the upper bound (Q1: max_value 3) was accepted
C1_Witness ==
    /\ lastEvent.op = "submit"
    /\ current_question = "Q1"
    /\ lastEvent.numeric = main_row.max_value
    /\ lastEvent.units = main_row.units
    /\ show_solution

\* the number of steps of the current question
n_steps == Len(sub_questions(current_section, current_question))

\* the first row of the current step
step_row == sub_q_data(current_section, current_question, current_subq)

\* the step handles a click on the button at position lastEvent'.opt of the
\* options displayed for the step that is current
ClickOnCurrentStep ==
    /\ lastEvent'.op = "option"
    /\ current_resolved
    /\ lastEvent'.sub_q = current_subq
    /\ lastEvent'.opt < Len(current_order)

\* C2: a click on the correct option of the current step, before the last
\* step, advances current_subq by exactly 1, stores a rearrangement of the
\* new step's non-blank options and shows "Correct! Moving to next step."
C2_CorrectAdvances ==
    [][ ( /\ ClickOnCurrentStep
          /\ current_subq < n_steps - 1
          /\ step_row.correct_option =
               Some(current_order[lastEvent'.opt + 1].original_index) )
        => ( /\ current_subq' = current_subq + 1
             /\ LET row == sub_q_data(current_section, current_question,
                                      current_subq + 1)
                    J   == { j \in 1..4 : ~is_blank(row.option[j]) }
                IN  /\ Len(current_order') = Cardinality(J)
                    /\ { current_order'[i].original_index :
                           i \in 1..Len(current_order') } = J
             /\ last_notification_id' = Some(next_step_msg)
             /\ next_step_msg \in visible' ) ]_vars

\* Q1 advanced from step 0 to step 1 by a click on a button of step 0
C2_Witness ==
    /\ lastEvent.op = "option"
    /\ lastEvent.sub_q = 0
    /\ current_question = "Q1"
    /\ current_subq = 1
    /\ last_notification_id = Some(next_step_msg)
    /\ Len(current_order) = 2

\* C3: a click at a displayed position of the current step resolves to the
\* option stored at that position of current_order and is judged correct
\* exactly when that option's original_index is the step's correct_option,
\* whatever the shuffle: a correct click is answered by one of the two
\* "Correct!" notifications, any other by the feedback of that option.
C3_JudgedByOriginalIndex ==
    [][ ( /\ ClickOnCurrentStep
          /\ step_row.correct_option # None )
        => LET clicked == current_order[lastEvent'.opt + 1]
           IN  IF clicked.original_index = step_row.correct_option[1]
               THEN last_notification_id' \in
                      { Some(next_step_msg), Some(final_answer_msg) }
               ELSE last_notification_id' =
                      Some(step_row.feedback[clicked.original_index]) ]_vars

\* the correct option of Q2's only step was clicked at a position that is
\* not its original index, and was judged correct
C3_Witness ==
    /\ lastEvent.op = "option"
    /\ current_question = "Q2"
    /\ lastEvent.opt < Len(current_order)
    /\ current_order[lastEvent.opt + 1].original_index # lastEvent.opt + 1
    /\ last_notification_id = Some(final_answer_msg)

\* the step handles a submitAnswer with a numeric value that is not fully
\* correct for the current, resolved question
FailedSubmit ==
    /\ lastEvent'.op = "submit"
    /\ lastEvent'.numeric # None
    /\ current_resolved
    /\ ~FullyCorrect(lastEvent'.numeric, lastEvent'.units)

\* the step handles a click on an option of the current step that is not
\* the step's correct option
WrongClick ==
    /\ ClickOnCurrentStep
    /\ step_row.correct_option # None
    /\ step_row.correct_option #
         Some(current_order[lastEvent'.opt + 1].original_index)

\* C4 as claimed: once show_solution is true it stays true after every
\* later selectOption and submitAnswer event.
C4_SolvedIsTerminal ==
    [][ (show_solution /\ lastEvent'.op \in { "option", "submit" })
        => show_solution' ]_vars

\* C4 amended: once show_solution is true it stays true after every
\* selectOption, every submitAnswer without a numeric value and every
\* fully-correct submitAnswer; a submitAnswer with a numeric value that is
\* not fully correct sets it back to false.
C4_SolvedUntilFailedSubmit ==
    [][ (show_solution /\ lastEvent'.op \in { "option", "submit" })
        => (show_solution' <=> ~FailedSubmit) ]_vars

\* an option was clicked on a solved question, which stayed solved
C4_Witness ==
    /\ lastEvent.op = "option"
    /\ show_solution
    /\ current_answer # None

\* C5 as claimed: an incorrect attempt (a click on a wrong option, a
\* submitAnswer that is not fully correct) changes nothing but feedback_text.
C5_IncorrectChangesOnlyFeedback ==
    [][ (WrongClick \/ FailedSubmit)
        => UNCHANGED << current_section, current_question, current_subq,
                        current_order, show_solution, current_answer,
                        current_units >> ]_vars

\* C5 amended: a click on a wrong option changes no reactive value of the
\* session; a submitAnswer that is not fully correct leaves section,
\* question, step and option order unchanged, stores the submitted value
\* and units, and sets show_solution to false.
C5_IncorrectKeepsPosition ==
    [][ /\ WrongClick => UNCHANGED session_vars
        /\ FailedSubmit =>
             /\ UNCHANGED << current_section, current_question, current_subq,
                             current_order >>
             /\ current_answer' = lastEvent'.numeric
             /\ current_units' = lastEvent'.units
             /\ show_solution' = FALSE ]_vars

\* a failed submission was stored while the question stayed at step 1
C5_Witness ==
    /\ lastEvent.op = "submit"
    /\ current_question = "Q1"
    /\ current_subq = 1
    /\ current_answer = Some(0)
    /\ feedback_text = out_of_range_msg
    /\ ~show_solution

\* C6 as claimed: a click issued for a step that is no longer the current
\* step changes no reactive value of the session.
C6_LateClickIgnored ==
    [][ (lastEvent'.op = "option" /\ lastEvent'.sub_q # current_subq)
        => UNCHANGED session_vars ]_vars

\* C7: show_solution turns from false to true only in a step that handles
\* a fully-correct submitAnswer for the current question.
C7_SolvedOnlyByCorrectSubmit ==
    [][ (~show_solution /\ show_solution')
        => ( /\ lastEvent'.op = "submit"
             /\ FullyCorrect(lastEvent'.numeric, lastEvent'.units) ) ]_vars

\* Q3 was solved by submitting 4 m/s
C7_Witness ==
    /\ lastEvent.op = "submit"
    /\ current_question = "Q3"
    /\ current_answer = Some(4)
    /\ current_units = "m/s"
    /\ show_solution
    /\ feedback_text = correct_text

\* C8 as claimed: whenever show_solution is true, current_subq is the last
\* step index of the current question.
C8_SolvedOnlyAtLastStep ==
    show_solution => (current_resolved /\ current_subq = n_steps - 1)

\* C8 amended: whenever show_solution is true, the current question is
\* resolved and current_subq is one of its step indices, 0 .. last: the
\* answer is accepted at every step, not only the last.
C8_SolvedAtSomeStep ==
    show_solution =>
        (current_resolved /\ 0 <= current_subq /\ current_subq <= n_steps - 1)

\* Q1 is solved at its last step, reached through steps 0 and 1
C8_Witness ==
    /\ show_solution
    /\ current_question = "Q1"
    /\ current_subq = 2

\* the main_question of the first dataset row of section, "" without rows
FirstRowQuestion(section) ==
    LET I == { i \in 1..Len(df) : df[i].section = section }
    IN  IF I = { } THEN ""
        ELSE df[CHOOSE i \in I : \A j \in I : i <= j].main_question

\* C9 as claimed: every section selection, by landing-page button or by
\* section menu, leaves current_section = name and current_question = the
\* main_question of the section's first row.
C9_SectionSelectsFirstQuestion ==
    [][ lastEvent'.op \in { "section_button", "section_nav" }
        => ( /\ current_section' = lastEvent'.section
             /\ current_question' = FirstRowQuestion(lastEvent'.section) ) ]_vars

\* C10: right after a section or question selection, current_subq = 0,
\* show_solution = false, feedback_text = "", current_answer = None and
\* current_units = "Select units".
C10_SelectionResets ==
    lastEvent.op \in { "section_button", "section_nav", "question" }
        => ( /\ current_subq = 0
             /\ show_solution = FALSE
             /\ feedback_text = ""
             /\ current_answer = None
             /\ current_units = "Select units" )

\* a question was selected after another had been solved: the notification
\* of the solution is still the last one shown
C10_Witness ==
    /\ lastEvent.op = "question"
    /\ last_notification_id = Some(solution_msg)
    /\ current_question = "Q2"
    /\ ~show_solution

\* C11 as claimed: a question selection with an id that is not a question
\* of current_section changes no reactive value of the session.
C11_UnknownQuestionIgnored ==
    [][ ( /\ lastEvent'.op = "question"
          /\ q_data(current_section, lastEvent'.id) = << >> )
        => UNCHANGED session_vars ]_vars

\* C12 as claimed: a submitAnswer with a numeric value while the current
\* question is not resolved leaves current_answer, current_units and
\* show_solution unchanged and sets feedback_text to "".
C12_UnresolvedSubmitIsNoOp ==
    [][ ( /\ lastEvent'.op = "submit"
          /\ lastEvent'.numeric # None
          /\ ~current_resolved )
        => ( /\ UNCHANGED << current_answer, current_units, show_solution >>
             /\ feedback_text' = "" ) ]_vars

\* C13: a submitAnswer without a numeric value sets feedback_text to "",
\* changes no other reactive value of the session and shows no notification.
C13_EmptySubmitClearsFeedback ==
    [][ (lastEvent'.op = "submit" /\ lastEvent'.numeric = None)
        => ( /\ feedback_text' = ""
             /\ UNCHANGED << current_order, current_section, current_question,
                             current_subq, show_solution, current_answer,
                             current_units >>
             /\ UNCHANGED << last_notification_id, visible >> ) ]_vars

\* an empty submission on a solved question cleared the feedback and left
\* the solution, the stored answer and the last notification in place
C13_Witness ==
    /\ lastEvent.op = "submit"
    /\ lastEvent.numeric = None
    /\ feedback_text = ""
    /\ show_solution
    /\ current_answer # None
    /\ last_notification_id = Some(solution_msg)

\* C14: with two sessions served by the same process, an event handled in
\* the other session changes neither this session's state nor what this
\* session is shown (landing page or main view) nor the notification
\* tracked as the one this session displays.
C14_SessionsIsolated ==
    [][ lastEvent'.op = "other_session"
        => ( /\ UNCHANGED session_vars
             /\ View' = View
             /\ UNCHANGED last_notification_id ) ]_vars

\* C15: at most one notification is visible in this session at a time:
\* every show retracts the notification previously shown to this session.
C15_AtMostOneVisible == Cardinality(visible) <= 1

\* the option texts of the dataset that count as blank
BlankTexts == { "", " ", "nan", "NaN", "none", "None" }

\* C16: while a step of a resolved question is current, the stored order is
\* a rearrangement of exactly the options of that step whose text is not
\* missing, blank, NaN or "none": each such option occurs once, no other
\* occurs, and every entry carries the text, feedback and is_correct flag
\* of its own original_index.
C16_OrderIsPermutation ==
    (current_resolved /\ current_subq < n_steps)
        => LET row == step_row
               J   == { j \in 1..4 : /\ row.option[j] # None
                                     /\ row.option[j][1] \notin BlankTexts }
           IN  /\ Len(current_order) = Cardinality(J)
               /\ { current_order[i].original_index :
                      i \in 1..Len(current_order) } = J
               /\ \A i \in 1..Len(current_order) :
                     LET e == current_order[i]
                     IN  /\ e.option_text = row.option[e.original_index][1]
                         /\ e.feedback = row.feedback[e.original_index]
                         /\ e.is_correct = eq_na(e.original_index,
                                                 row.correct_option)

\* step b of Q1 (options p, "None", q, " ") was entered from step a and
\* its two valid options are stored in the order q, p
C16_Witness ==
    /\ lastEvent.op = "option"
    /\ current_question = "Q1"
    /\ current_subq = 1
    /\ Len(current_order) = 2
    /\ current_order[1].original_index = 3
    /\ current_order[2].option_text = "p"

\* C17: the stored order is fixed between step entries: a click on a wrong
\* option and any submitAnswer, with the notification they show, leave
\* current_order unchanged; the order changes only in a step that selects a
\* section or a question or that changes current_subq.
C17_OrderFixedBetweenEntries ==
    [][ /\ (WrongClick \/ lastEvent'.op = "submit")
            => UNCHANGED current_order
        /\ current_order' # current_order
            => \/ lastEvent'.op \in { "section_button", "section_nav",
                                      "question" }
               \/ current_subq' # current_subq ]_vars

\* step a of Q1 displays its options in the order y, z, x and a submission
\* with other units has been answered by a notification
C17_Witness ==
    /\ lastEvent.op = "submit"
    /\ current_question = "Q1"
    /\ current_subq = 0
    /\ Len(current_order) = 3
    /\ current_order[1].original_index = 2
    /\ current_order[2].original_index = 3
    /\ feedback_text = wrong_units_msg
    /\ last_notification_id = Some(wrong_units_msg)

\* C18: a click on the correct option of the current step, when that step
\* is the last one of the question, does not advance current_subq, shows
\* only "Correct! Please enter your final answer." and leaves show_solution
\* and the rest of the session state unchanged.
C18_CorrectAtLastStepStays ==
    [][ ( /\ ClickOnCurrentStep
          /\ current_subq = n_steps - 1
          /\ step_row.correct_option =
               Some(current_order[lastEvent'.opt + 1].original_index) )
        => ( /\ current_subq' = current_subq
             /\ current_subq' <= n_steps - 1
             /\ UNCHANGED session_vars
             /\ last_notification_id' = Some(final_answer_msg)
             /\ visible' = { final_answer_msg } ) ]_vars

\* the correct option of the only step of Q2 was clicked: the step is still
\* current, nothing is solved and the final-answer notification is shown
C18_Witness ==
    /\ lastEvent.op = "option"
    /\ current_section = "S1"
    /\ current_question = "Q2"
    /\ current_subq = 0
    /\ ~show_solution
    /\ visible = { final_answer_msg }

\* C19: after a submitAnswer with a numeric value on a resolved question,
\* feedback_text follows the outcome table: the "Correct!" text when value
\* and units are both correct; a units message when the value is in range
\* and the units differ, one wording for the "Select units" placeholder and
\* another for a real unit; the "Try again" text whenever the value is out
\* of range, whatever the units.
C19_FeedbackByOutcome ==
    (lastEvent.op = "submit" /\ lastEvent.numeric # None /\ current_resolved)
        => /\ select_units_msg # wrong_units_msg
           /\ feedback_text =
                IF FullyCorrect(lastEvent.numeric, lastEvent.units)
                THEN "Correct! View the complete solution below."
                ELSE IF InRange(lastEvent.numeric[1], main_row)
                THEN IF lastEvent.units = "Select units"
                     THEN select_units_msg
                     ELSE wrong_units_msg
                ELSE "Try again. Your answer is not within the acceptable range."

\* a value in the range of Q1 was submitted without selecting units
C19_Witness ==
    /\ lastEvent.op = "submit"
    /\ current_section = "S1"
    /\ current_question = "Q1"
    /\ lastEvent.numeric = Some(2)
    /\ lastEvent.units = "Select units"
    /\ feedback_text = select_units_msg

\* C20: the "Select units" placeholder never matches the units of a question
\* of the dataset: a submitAnswer with units "Select units" is never fully
\* correct, never turns show_solution to true, and with a numeric value on a
\* resolved question leaves show_solution false, whatever the value.
C20_PlaceholderNeverSolves ==
    [][ (lastEvent'.op = "submit" /\ lastEvent'.units = "Select units")
        => ( /\ \A r \in Range(df) : r.units # "Select units"
             /\ ~FullyCorrect(lastEvent'.numeric, lastEvent'.units)
             /\ show_solution' => show_solution
             /\ (lastEvent'.numeric # None /\ current_resolved)
                   => ~show_solution' ) ]_vars

\* the only value in the range of Q3 was submitted with the placeholder
\* units and the question is not solved
C20_Witness ==
    /\ lastEvent.op = "submit"
    /\ current_section = "S2"
    /\ current_question = "Q3"
    /\ lastEvent.numeric = Some(4)
    /\ lastEvent.units = "Select units"
    /\ current_units = "Select units"
    /\ ~show_solution

\* the range data of a row is invalid: a bound is missing (NaN) or the
\* bounds are in the wrong order
InvalidRange(row) ==
    \/ row.min_value = None
    \/ row.max_value = None
    \/ row.min_value[1] > row.max_value[1]

\* C21: on a question whose range data is invalid, a submitAnswer with any
\* numeric value fails the range check without raising: show_solution is
\* false afterwards, the range message is the feedback and the session
\* stays open for later events.
C21_InvalidRangeNeverSolves ==
    [][ ( /\ lastEvent'.op = "submit"
          /\ lastEvent'.numeric # None
          /\ current_resolved
          /\ InvalidRange(main_row) )
        => ( /\ ~show_solution'
             /\ feedback_text' = out_of_range_msg
             /\ current_answer' = lastEvent'.numeric
             /\ alive' ) ]_vars

\* Q5 has min_value 3 and max_value 1: the value 2 with the question's
\* units was submitted and refused, and the session is open
C21_Witness ==
    /\ lastEvent.op = "submit"
    /\ current_section = "S2"
    /\ current_question = "Q5"
    /\ current_answer = Some(2)
    /\ current_units = "m"
    /\ ~show_solution
    /\ alive

\* C22: a click whose step index is not below the number of steps of the
\* current question, or whose position is not below the length of the
\* stored order (an empty order included), is ignored: no session value
\* changes, no notification is shown and the session stays open.
C22_OutOfRangeClickIgnored ==
    [][ ( /\ lastEvent'.op = "option"
          /\ \/ lastEvent'.sub_q >= n_steps
             \/ lastEvent'.opt >= Len(current_order) )
        => ( /\ UNCHANGED session_vars
             /\ UNCHANGED << last_notification_id, visible >>
             /\ alive' ) ]_vars

\* a button of the third step of Q4 was clicked after Q3, a question of two
\* steps, had become current
C22_Witness ==
    /\ lastEvent.op = "option"
    /\ current_question = "Q3"
    /\ current_resolved
    /\ lastEvent.sub_q >= n_steps
    /\ current_subq = 0

\* the values reset_state leaves
ResetDone ==
    /\ current_subq = 0
    /\ ~show_solution
    /\ feedback_text = ""
    /\ current_answer = None
    /\ current_units = "Select units"

\* C23: reset_state is idempotent and leaves current_section and
\* current_question alone: every event whose effect calls it ends in the
\* reset values whatever the state before, a state that holds them already
\* is left with them, and current_section and current_question are then
\* exactly what the effect itself assigns.
C23_ResetIdempotent ==
    [][ ( lastEvent'.op \in { "section_button", "section_nav", "question" } )
        => ( /\ ResetDone'
             /\ ResetDone => UNCHANGED << current_subq, show_solution,
                                          feedback_text, current_answer,
                                          current_units >>
             /\ lastEvent'.op = "question"
                  => /\ current_section' = current_section
                     /\ current_question' = lastEvent'.id
             /\ lastEvent'.op = "section_button"
                  => /\ current_section' = lastEvent'.section
                     /\ current_question' = current_question
             /\ lastEvent'.op = "section_nav"
                  => current_section' = lastEvent'.section ) ]_vars

\* Q2 was selected as the second event since the last rendering arrived,
\* and the state holds the reset values
C23_Witness ==
    /\ lastEvent.op = "question"
    /\ current_question = "Q2"
    /\ late = 2
    /\ ResetDone

\* the feedback text of a submission (numeric, units) taken alone on the
\* current question
OutcomeText(numeric, units) ==
    IF FullyCorrect(numeric, units) THEN correct_text
    ELSE IF InRange(numeric[1], main_row)
    THEN IF units = "Select units" THEN select_units_msg ELSE wrong_units_msg
    ELSE out_of_range_msg

\* C24: events are handled one at a time and the last submission wins: a
\* submitAnswer with a numeric value on a resolved question, whatever was
\* submitted before it, leaves show_solution, feedback_text, current_answer
\* and current_units as that submission alone determines them.
C24_LastSubmitWins ==
    [][ ( /\ lastEvent'.op = "submit"
          /\ lastEvent'.numeric # None
          /\ current_resolved )
        => ( /\ current_answer' = lastEvent'.numeric
             /\ current_units' = lastEvent'.units
             /\ show_solution' =
                  FullyCorrect(lastEvent'.numeric, lastEvent'.units)
             /\ feedback_text' =
                  OutcomeText(lastEvent'.numeric, lastEvent'.units)
             /\ UNCHANGED << current_section, current_question,
                             current_subq >> ) ]_vars

\* the last of the events handled since the rendering of Q3 arrived is a
\* submission out of range: nothing of an earlier one is left
C24_Witness ==
    /\ lastEvent.op = "submit"
    /\ late = MaxInFlight
    /\ shown.card
    /\ current_question = "Q3"
    /\ current_answer = Some(0)
    /\ current_units = "m/s"
    /\ ~show_solution
    /\ feedback_text = out_of_range_msg

\* the first row of the dataset with the current section and question
FirstRow ==
    LET I == { i \in 1..Len(df) : /\ df[i].section = current_section
                                  /\ df[i].main_question = current_question }
    IN  df[CHOOSE i \in I : \A j \in I : i <= j]

\* C25: submitAnswer validates against min_value, max_value and units of
\* the first dataset row of the current question, whatever step is current
\* and whatever the rows of the other steps hold.
C25_ValidatesAgainstFirstRow ==
    [][ ( /\ lastEvent'.op = "submit"
          /\ lastEvent'.numeric # None
          /\ current_resolved )
        => ( show_solution' <=>
               /\ FirstRow.min_value # None
               /\ FirstRow.max_value # None
               /\ FirstRow.min_value[1] <= lastEvent'.numeric[1]
               /\ lastEvent'.numeric[1] <= FirstRow.max_value[1]
               /\ lastEvent'.units = FirstRow.units ) ]_vars

\* Q1 was solved at its second step, whose own row has no range: the
\* value 2 lies in the range 1..3 of the first row
C25_Witness ==
    /\ lastEvent.op = "submit"
    /\ current_section = "S1"
    /\ current_question = "Q1"
    /\ current_subq = 1
    /\ step_row.min_value = None
    /\ current_answer = Some(2)
    /\ show_solution

\* C26: in every reachable state in which the current question is
\* resolved, current_subq is a step of it: 0 <= current_subq < number of
\* steps, also after leaving a question of many steps for one of fewer.
C26_StepWithinQuestion ==
    current_resolved => (0 <= current_subq /\ current_subq < n_steps)

\* Q3, a question of two steps, became current by its tab while the browser
\* still displayed a later step of the twelve steps of Q4
C26_Witness ==
    /\ lastEvent.op = "question"
    /\ current_question = "Q3"
    /\ current_resolved
    /\ shown.step >= n_steps
    /\ current_subq = 0

\* C27: in every reachable state current_question is empty or the
\* main_question of some dataset row of current_section.
C27_QuestionOfSection ==
    \/ current_question = ""
    \/ \E r \in Range(df) : /\ r.section = current_section
                             /\ r.main_question = current_question

\* the learner is on the twelve-step question Q4, the session is open and
\* the last event selected no section and no question
OnLongQuestion ==
    /\ alive
    /\ current_section = "S2"
    /\ current_question = "Q4"
    /\ lastEvent.op \notin { "section_button", "section_nav", "question" }

\* C28: no lockout: a learner who stays on a question of more than ten
\* steps, each non-final step displaying its correct option, and keeps
\* clicking the correct option of the current step eventually reaches the
\* last step.
C28_NoLockout ==
    <>[]OnLongQuestion => <>(OnLongQuestion /\ current_subq = n_steps - 1)

====
